---- MODULE Spec2Model ----
(***************************************************************************)
(* A model of opentelemetry-application-insights:                          *)
(*   - the QuickPulse (live metrics) controller loop of                    *)
(*     src/quick_pulse.rs, as a state machine over its loop-local state,   *)
(*     the shutdown channel and the wall clock;                            *)
(*   - the span exporter of src/lib.rs (create_envelopes, export and the   *)
(*     conversions into RequestData / RemoteDependencyData / MessageData)  *)
(*     as operators applied by an Export action.                           *)
(* Times and durations are whole seconds.  Option<T> is a sequence of      *)
(* length at most one: None == <<>>, Some(x) == <<x>>.                     *)
(***************************************************************************)
EXTENDS Integers, Sequences, FiniteSets, TLC

VARIABLES
    \* ---- QuickPulse controller (quick_pulse.rs) ----
    pc,                     \* "wait" (select at line 52), "exchange" (await at line 101),
                            \* "stopped" (after the break of line 53), "aborted" (the
                            \* runtime dropped the spawned task)
    is_collecting,          \* line 36
    last_success_time,      \* line 37
    redirected_host,        \* line 38
    polling_interval_hint,  \* line 39
    cpu_metric,             \* line 42
    current_timeout,        \* line 47
    now,                    \* line 66, the wall clock read at the last tick
    request,                \* the last exchange handed to uploader_quick_pulse::send (lines 88-100)
    last_send_succeeded,    \* line 103
    chan,                   \* messages queued in the shutdown channel (line 33)
    sender,                 \* "held" while the QuickPulseManager lives, "dropped" after Drop
    errors,                 \* errors handed to opentelemetry::global::handle_error (line 152)
    in_flight,              \* exchanges started at line 88 that have not returned yet
    fed,                    \* the samples added to cpu_metric since its last reset
    \* ---- span exporter (lib.rs) ----
    batch,                  \* the batch the SDK hands to export
    uploads,                \* the envelope sequences handed to uploader::send, in call order
    response,               \* the uploader::Response of the call (None before it)
    result                  \* the ExportResult returned by export (None before the call)

qpVars == <<pc, is_collecting, last_success_time, redirected_host, polling_interval_hint,
            cpu_metric, current_timeout, now, request, last_send_succeeded, chan, sender,
            errors, in_flight, fed>>
exVars == <<batch, uploads, response, result>>
vars == <<qpVars, exVars>>

None == <<>>
Some(x) == <<x>>
IsSome(o) == o # <<>>
UnwrapOr(o, d) == IF o # <<>> THEN o[1] ELSE d

-----------------------------------------------------------------------------
(* QuickPulse: constants of quick_pulse.rs lines 18-22, in seconds *)
MAX_POST_WAIT_TIME == 20
MAX_PING_WAIT_TIME == 60
FALLBACK_INTERVAL == 60
PING_INTERVAL == 5
POST_INTERVAL == 1
UNIX_EPOCH == 0
\* Duration::MAX, cut down to a value above every duration of the model
DurationMAX == 1000000
\* batch_message_channel(1)
ChannelCapacity == 1

(* Bounds of the QuickPulse model *)
\* the wall clock when the controller is started
StartTime == 100
\* the model follows the clock for this many seconds after StartTime
Horizon == 90
MaxTime == StartTime + Horizon
\* what a tick comes late by (the timer's lateness plus the previous exchange's
\* duration); the clock of the model does not step back
Delays == {0, 20}
\* the CPU usage sampled at a tick (sum over the cores)
Samples == {10, 30}
\* endpoints and polling intervals a response can carry
Hosts == {"redirect-a", "redirect-b"}
Hints == {2, 30}
DefaultEndpoint == "live_metrics_endpoint"

\* uploader_quick_pulse::send returns Result<Response, ()> after map_err (line 102)
Err == [ok |-> FALSE, should_post |-> FALSE, redirected_host |-> None,
        polling_interval_hint |-> None]
OkResponses == [ok : {TRUE}, should_post : BOOLEAN,
                redirected_host : {None} \cup {Some(h) : h \in Hosts},
                polling_interval_hint : {None} \cup {Some(d) : d \in Hints}]
Responses == {Err} \cup OkResponses

NoRequest == [mode |-> "None", host |-> "", value |-> 0, weight |-> 0, timestamp |-> 0]

\* mutant of add_metric: the weighted sum is divided by the old weight
add_metric_OldWeight(metric, value) ==
    IF metric.weight = 0
    THEN [value |-> value, weight |-> 1]
    ELSE [value |-> (metric.value * metric.weight + value) \div metric.weight,
          weight |-> metric.weight + 1]

\* add_metric, lines 159-167.  The division is f32 division; the model applies
\* add_metric only where the quotient is a whole number (ExactMean), where f32
\* division and \div agree
add_metric(metric, value) ==
    IF metric.weight = 0
    THEN [value |-> value, weight |-> 1]
    ELSE [value |-> (metric.value * metric.weight + value) \div (metric.weight + 1),
          weight |-> metric.weight + 1]

\* mutant of reset_metric: the accumulator is left as it is
reset_metric_Keep(metric) == metric

\* reset_metric, lines 169-172
reset_metric(metric) == [value |-> 0, weight |-> 0]

\* mutant of time_since_last_success: the epoch stands for "no success yet" and
\* nothing has elapsed since it
time_since_last_success_EpochIsNever(t, last) ==
    IF last = UNIX_EPOCH THEN 0 ELSE IF t >= last THEN t - last ELSE DurationMAX

\* SystemTime::duration_since(..).unwrap_or(Duration::MAX), lines 128-130
time_since_last_success(t, last) == IF t >= last THEN t - last ELSE DurationMAX

\* the stop future of line 49 is ready when the receiver holds a message or
\* every sender is gone
StopReady == chan > 0 \/ sender = "dropped"

QPInit ==
    /\ pc = "wait"
    /\ is_collecting = FALSE
    /\ last_success_time = UNIX_EPOCH
    /\ redirected_host = None
    /\ polling_interval_hint = None
    /\ cpu_metric = [value |-> 0, weight |-> 0]
    /\ current_timeout = PING_INTERVAL
    /\ now = StartTime
    /\ request = NoRequest
    /\ last_send_succeeded = FALSE
    /\ chan = 0
    /\ sender = "held"
    /\ errors = 0
    /\ in_flight = 0
    /\ fed = <<>>

\* mutant of select: the timer is polled first
select_TimerFirst(stop_ready) == "Right"

\* future::select(&mut stop, delay) at line 52 polls the stop future first: with the
\* timer ready, Left (stop) wins when the stop future is ready too
select(stop_ready) == IF stop_ready THEN "Left" ELSE "Right"

\* PostOrPing chosen at lines 94-98
PostOrPing(collecting) == IF collecting THEN "Post" ELSE "Ping"

\* the endpoint chosen at lines 90-92
Endpoint(redirected) == UnwrapOr(redirected, DefaultEndpoint)

\* mutant of await_send: the exchange is started and the loop goes on to its next
\* wait without awaiting it
await_send_Detached == "wait"

\* line 101: the loop awaits the exchange it started, and is suspended there until
\* the exchange returns
await_send == "exchange"

\* lines 52-101: the timer wins the select (the stop future is polled first and is
\* not ready), the metric is sampled, the envelope is built, the metric is reset
\* and the exchange is started
Tick(d, sample) ==
    /\ pc = "wait"
    /\ select(StopReady) = "Right"
    /\ now + current_timeout + d >= StartTime
    /\ now + current_timeout + d <= MaxTime
    /\ now' = now + current_timeout + d
    /\ LET m == add_metric(cpu_metric, sample)
       IN /\ request' = [mode |-> PostOrPing(is_collecting),
                         host |-> Endpoint(redirected_host),
                         value |-> m.value, weight |-> m.weight,
                         timestamp |-> now']
          /\ cpu_metric' = reset_metric(m)
    /\ pc' = await_send
    /\ in_flight' = in_flight + 1
    /\ UNCHANGED <<is_collecting, last_success_time, redirected_host, polling_interval_hint,
                   current_timeout, last_send_succeeded, chan, sender, errors, fed>>

\* mutant of collecting_after: a response can start collecting but never end it
collecting_after_Sticky(res, collecting) ==
    IF res.ok THEN (res.should_post \/ collecting) ELSE collecting

\* mutant of success_time_after: the time of the last attempt is recorded
success_time_after_Attempt(res, t, last) == t

\* lines 108-109: what a response does to is_collecting and last_success_time
collecting_after(res, collecting) == IF res.ok THEN res.should_post ELSE collecting
success_time_after(res, t, last) == IF res.ok THEN t ELSE last

\* mutant of adopt: a successful response overwrites with whatever it carries
adopt_Overwrite(res_ok, carried, current) == IF res_ok THEN carried ELSE current

\* lines 110-115: a redirected host or a polling hint is adopted when the
\* response carries one
adopt(res_ok, carried, current) == IF res_ok /\ IsSome(carried) THEN carried ELSE current

\* mutant of next_timeout: the polling hint is ignored
next_timeout_NoHint(collecting, hint) ==
    IF collecting THEN POST_INTERVAL ELSE PING_INTERVAL

\* mutant of next_timeout: the polling hint is used in Post too
next_timeout_HintInPost(collecting, hint) ==
    UnwrapOr(hint, IF collecting THEN POST_INTERVAL ELSE PING_INTERVAL)

\* lines 122-126
next_timeout(collecting, hint) ==
    IF collecting THEN POST_INTERVAL ELSE UnwrapOr(hint, PING_INTERVAL)

\* mutant of PostStale: strictly more than the threshold
PostStale_Strict(collecting, elapsed) == collecting /\ elapsed > MAX_POST_WAIT_TIME

\* mutant of PostStale: the threshold of the Ping state is used
PostStale_PingThreshold(collecting, elapsed) == collecting /\ elapsed >= MAX_PING_WAIT_TIME

\* mutant of PingStale: strictly more than the threshold
PingStale_Strict(collecting, elapsed) == ~collecting /\ elapsed > MAX_PING_WAIT_TIME

\* lines 131 and 135: which staleness rule applies after a failed exchange
PostStale(collecting, elapsed) == collecting /\ elapsed >= MAX_POST_WAIT_TIME
PingStale(collecting, elapsed) == ~collecting /\ elapsed >= MAX_PING_WAIT_TIME

\* mutant of continue_loop: a failed exchange breaks the loop
continue_loop_BreakOnFailure(res) == res.ok

\* lines 51 and 142: the loop body has no break, whatever the exchange returned
continue_loop(res) == TRUE

\* lines 103-141: the exchange returns res and the rest of the loop body runs
Respond(res) ==
    /\ pc = "exchange"
    /\ LET collecting == collecting_after(res, is_collecting)
           success_time == success_time_after(res, now, last_success_time)
           hint == adopt(res.ok, res.polling_interval_hint, polling_interval_hint)
           elapsed == time_since_last_success(now, success_time)
       IN /\ last_success_time' = success_time
          /\ redirected_host' = adopt(res.ok, res.redirected_host, redirected_host)
          /\ polling_interval_hint' = hint
          /\ last_send_succeeded' = res.ok
          /\ IF ~res.ok /\ PostStale(collecting, elapsed)
             THEN /\ is_collecting' = FALSE
                  /\ current_timeout' = FALLBACK_INTERVAL
             ELSE IF ~res.ok /\ PingStale(collecting, elapsed)
             THEN /\ is_collecting' = collecting
                  /\ current_timeout' = FALLBACK_INTERVAL
             ELSE /\ is_collecting' = collecting
                  /\ current_timeout' = next_timeout(collecting, hint)
    /\ pc' = IF continue_loop(res) THEN "wait" ELSE "stopped"
    /\ in_flight' = in_flight - 1
    /\ UNCHANGED <<cpu_metric, now, request, chan, sender, errors, fed>>

\* lines 52-54: the stop future wins the select and the loop breaks
Cancel ==
    /\ pc = "wait"
    /\ StopReady
    /\ pc' = "stopped"
    /\ chan' = IF chan > 0 THEN chan - 1 ELSE chan
    /\ UNCHANGED <<is_collecting, last_success_time, redirected_host, polling_interval_hint,
                   cpu_metric, current_timeout, now, request, last_send_succeeded, sender,
                   errors, in_flight, fed>>

\* the receiver of the shutdown channel is owned by the spawned task (line 49) and
\* lives as long as the task does
ReceiverAlive == pc \in {"wait", "exchange"}

\* try_send at line 151 does not wait: it fails when the channel is full or its
\* receiver is gone
try_send(queued, receiver_alive) == queued < ChannelCapacity /\ receiver_alive

\* lines 151-153: an Err of try_send is handed to handle_error, once
handled_errors(sent) == IF sent THEN 0 ELSE 1

\* mutant of drop_outcome: the result of try_send is unwrapped
drop_outcome_Unwrap(sent) == IF sent THEN "dropped" ELSE "panicked"

\* lines 150-156: drop returns normally on both branches of the if let
drop_outcome(sent) == "dropped"

\* Drop for QuickPulseManager, lines 149-157: try_send, then the sender is dropped
DropManager ==
    /\ sender = "held"
    /\ LET sent == try_send(chan, ReceiverAlive)
       IN /\ chan' = IF sent THEN chan + 1 ELSE chan
          /\ errors' = errors + handled_errors(sent)
          /\ sender' = drop_outcome(sent)
    /\ UNCHANGED <<pc, is_collecting, last_success_time, redirected_host,
                   polling_interval_hint, cpu_metric, current_timeout, now, request,
                   last_send_succeeded, in_flight, fed>>

\* lines 35 and 146: the loop is a task spawned on the runtime handed to new; a
\* runtime that shuts down drops the task at the await it is suspended at, and with
\* it the receiver and the exchange in flight
RuntimeShutdown ==
    /\ pc \in {"wait", "exchange"}
    /\ pc' = "aborted"
    /\ in_flight' = 0
    /\ UNCHANGED <<is_collecting, last_success_time, redirected_host, polling_interval_hint,
                   cpu_metric, current_timeout, now, request, last_send_succeeded, chan,
                   sender, errors, fed>>

(* The accumulator functions on their own: add_metric and reset_metric applied *)
(* to cpu_metric in any order.                                                 *)
\* at most this many samples are added between two resets
MaxFeed == 3
MetricSamples == {0, 10, 20, 30, 40, 50, 60}

\* the new mean is a whole number
ExactMean(metric, sample) ==
    metric.weight = 0 \/ (metric.value * metric.weight + sample) % (metric.weight + 1) = 0

AddMetric(sample) ==
    /\ Len(fed) < MaxFeed
    /\ ExactMean(cpu_metric, sample)
    /\ cpu_metric' = add_metric(cpu_metric, sample)
    /\ fed' = Append(fed, sample)
    /\ UNCHANGED <<pc, is_collecting, last_success_time, redirected_host,
                   polling_interval_hint, current_timeout, now, request,
                   last_send_succeeded, chan, sender, errors, in_flight>>

ResetMetric ==
    /\ cpu_metric' = reset_metric(cpu_metric)
    /\ fed' = <<>>
    /\ UNCHANGED <<pc, is_collecting, last_success_time, redirected_host,
                   polling_interval_hint, current_timeout, now, request,
                   last_send_succeeded, chan, sender, errors, in_flight>>

-----------------------------------------------------------------------------
(* Span exporter (lib.rs).  A span is                                       *)
(*   [span_id, span_kind, name, status_code, attributes, resource,          *)
(*    message_events]                                                       *)
(* with attributes and resource functions from keys to typed values and     *)
(* message_events a sequence of [name, attributes].  Timestamps, durations, *)
(* the sample rate and the instrumentation key are passed through by the    *)
(* code and are left out of the envelopes of the model.                     *)

Kinds == {"Server", "Consumer", "Client", "Producer", "Internal"}

\* opentelemetry::api::StatusCode, cast to i32 at lines 240 and 287
StatusOK == 0
StatusUnknown == 2
StatusCodes == {StatusOK, StatusUnknown}

\* a typed attribute value and String::from(&Value)
Str(s) == [type |-> "String", s |-> s, i |-> 0]
I64(i) == [type |-> "I64", s |-> "", i |-> i]
ValueToString(v) == IF v.type = "String" THEN v.s ELSE ToString(v.i)

StartsWith(s, prefix) ==
    Len(s) >= Len(prefix) /\ SubSeq(s, 1, Len(prefix)) = prefix

EmptyMap == [k \in {} |-> Str("")]

\* the attribute keys the conversions read, and keys they do not
SpecialKeys == {"http.url", "http.target", "http.status_code", "http.method", "http.route",
                "db.statement", "http.host", "net.peer.name", "db.name", "db.system",
                "messaging.system"}
EnduserId == "enduser.id"
OtherKeys == {"http.flavor", "db.user", "thread.id"}
Keys == SpecialKeys \cup {EnduserId} \cup OtherKeys

\* collect_attrs (convert.rs): span and resource attributes in one map, the
\* span's value winning on a key both have
collect_attrs(attributes, resource) ==
    [k \in DOMAIN attributes \cup DOMAIN resource |->
        IF k \in DOMAIN attributes THEN attributes[k] ELSE resource[k]]

\* HashMap::get at lines 249-320, then String::from(*value)
Get(attrs, k) == IF k \in DOMAIN attrs THEN Some(ValueToString(attrs[k])) ELSE None

\* attrs_to_properties (convert.rs): every attribute that no special-field rule
\* and not the tag builder consumes, coerced to a string; None when none is left
attrs_to_properties(attrs) ==
    LET kept == DOMAIN attrs \ (SpecialKeys \cup {EnduserId})
    IN IF kept = {} THEN None ELSE Some([k \in kept |-> ValueToString(attrs[k])])

\* mutant of properties_of: the collected attributes are copied as they are
properties_of_Unfiltered(attrs) ==
    IF DOMAIN attrs = {} THEN None ELSE Some([k \in DOMAIN attrs |-> ValueToString(attrs[k])])

\* lines 271 and 328: the properties of a record are what attrs_to_properties
\* makes of the collected attributes
properties_of(attrs) == attrs_to_properties(attrs)

\* span_id_to_string (convert.rs): fixed-width lower-case hex
HexDigits == <<"0", "1", "2", "3", "4", "5", "6", "7", "8", "9", "a", "b", "c", "d", "e", "f">>
span_id_to_string(id) == "00000000000000" \o HexDigits[(id \div 16) + 1] \o HexDigits[(id % 16) + 1]

\* Sanitize::sanitize (models): cuts fields down to the backend's limits; every
\* string of the model is within them
sanitize(record) == record

\* mutant of request_name: http.route overrides the name without http.method too
request_name_RouteAlone(span_name, method, route) ==
    IF IsSome(method)
    THEN IF IsSome(route) THEN Some(method[1] \o " " \o route[1]) ELSE Some(method[1])
    ELSE IF IsSome(route) THEN route
    ELSE IF span_name # "" THEN Some(span_name) ELSE None

\* lines 234 and 249-259: the span's name when it is not empty, overridden by
\* http.method, with http.route appended when both are there
request_name(span_name, method, route) ==
    IF IsSome(method)
    THEN IF IsSome(route) THEN Some(method[1] \o " " \o route[1]) ELSE Some(method[1])
    ELSE IF span_name # "" THEN Some(span_name) ELSE None

\* From<&SpanData> for RequestData, lines 229-274
RequestDataFrom(span) ==
    LET attrs == collect_attrs(span.attributes, span.resource)
        method == Get(attrs, "http.method")
        route == Get(attrs, "http.route")
        status_code == Get(attrs, "http.status_code")
        url == Get(attrs, "http.url")
        target == Get(attrs, "http.target")
    IN [ver |-> 2,
        id |-> span_id_to_string(span.span_id),
        name |-> request_name(span.name, method, route),
        response_code |-> IF IsSome(status_code) THEN status_code[1]
                                                 ELSE ToString(span.status_code),
        success |-> (span.status_code = StatusOK),
        url |-> IF IsSome(url) THEN url ELSE target,
        properties |-> properties_of(attrs)]

\* mutant of dependency_type: db.system is looked at before the kind
dependency_type_AttrsFirst(span_kind, attrs) ==
    IF "db.system" \in DOMAIN attrs THEN Get(attrs, "db.system")
    ELSE IF span_kind = "Internal" THEN Some("InProc")
    ELSE IF "messaging.system" \in DOMAIN attrs THEN Get(attrs, "messaging.system")
    ELSE IF \E k \in DOMAIN attrs : StartsWith(k, "http.") THEN Some("HTTP")
    ELSE IF \E k \in DOMAIN attrs : StartsWith(k, "db.") THEN Some("DB")
    ELSE None

\* the type_ chain of lines 315-326
dependency_type(span_kind, attrs) ==
    IF span_kind = "Internal" THEN Some("InProc")
    ELSE IF "db.system" \in DOMAIN attrs THEN Get(attrs, "db.system")
    ELSE IF "messaging.system" \in DOMAIN attrs THEN Get(attrs, "messaging.system")
    ELSE IF \E k \in DOMAIN attrs : StartsWith(k, "http.") THEN Some("HTTP")
    ELSE IF \E k \in DOMAIN attrs : StartsWith(k, "db.") THEN Some("DB")
    ELSE None

\* success, lines 288 and 315-317
dependency_success(span_kind, status_code) ==
    IF span_kind = "Internal" THEN TRUE ELSE status_code = StatusOK

\* From<&SpanData> for RemoteDependencyData, lines 276-331
RemoteDependencyDataFrom(span) ==
    LET attrs == collect_attrs(span.attributes, span.resource)
        status_code == Get(attrs, "http.status_code")
        url == Get(attrs, "http.url")
        host == Get(attrs, "http.host")
        peer_name == Get(attrs, "net.peer.name")
    IN [ver |-> 2,
        id |-> Some(span_id_to_string(span.span_id)),
        name |-> span.name,
        result_code |-> IF IsSome(status_code) THEN status_code
                                               ELSE Some(ToString(span.status_code)),
        success |-> Some(dependency_success(span.span_kind, span.status_code)),
        data |-> IF IsSome(url) THEN url ELSE Get(attrs, "db.statement"),
        target |-> IF IsSome(host) THEN host
                   ELSE IF IsSome(peer_name) THEN peer_name
                   ELSE Get(attrs, "db.name"),
        type_ |-> dependency_type(span.span_kind, attrs),
        properties |-> properties_of(attrs)]

\* From<&Event> for MessageData, lines 333-352
MessageDataFrom(event) ==
    [ver |-> 2,
     message |-> IF event.name = "" THEN "<no message>" ELSE event.name,
     properties |-> IF DOMAIN event.attributes = {} THEN None
                    ELSE Some([k \in DOMAIN event.attributes |->
                                  ValueToString(event.attributes[k])])]

\* get_tags_for_span, get_tags_for_event, merge_tags (tags.rs): the operation id
\* of the span, the authenticated user from enduser.id, over the common tags
CommonTags == [k \in {"ai.internal.sdkVersion"} |-> "rust:ot"]
merge_tags(common, tags) ==
    [k \in DOMAIN common \cup DOMAIN tags |-> IF k \in DOMAIN tags THEN tags[k] ELSE common[k]]
get_tags_for_event(span) ==
    [k \in {"ai.operation.parentId"} |-> span_id_to_string(span.span_id)]
get_tags_for_span(span, properties) ==
    LET attrs == collect_attrs(span.attributes, span.resource)
    IN [k \in {"ai.operation.id"} \cup (IF EnduserId \in DOMAIN attrs THEN {"ai.user.authUserId"} ELSE {}) |->
           IF k = "ai.operation.id" THEN span_id_to_string(span.span_id)
           ELSE ValueToString(attrs[EnduserId])]

\* mutant of is_request_kind: Consumer falls into the dependency arm
is_request_kind_ServerOnly(span_kind) == span_kind = "Server"

\* the match arms of lines 147 and 157
is_request_kind(span_kind) == span_kind \in {"Server", "Consumer"}

\* the match on span_kind, lines 146-167: the payload and the envelope name
primary_of(span) ==
    IF is_request_kind(span.span_kind)
    THEN LET data == RequestDataFrom(span)
         IN [name |-> "Microsoft.ApplicationInsights.Request",
             tags |-> merge_tags(CommonTags, get_tags_for_span(span, data.properties)),
             data |-> [baseType |-> "RequestData", baseData |-> sanitize(data)]]
    ELSE LET data == RemoteDependencyDataFrom(span)
         IN [name |-> "Microsoft.ApplicationInsights.RemoteDependency",
             tags |-> merge_tags(CommonTags, get_tags_for_span(span, data.properties)),
             data |-> [baseType |-> "RemoteDependencyData", baseData |-> sanitize(data)]]

\* the envelope of one event, lines 183-199
message_of(span, event) ==
    [name |-> "Microsoft.ApplicationInsights.Message",
     tags |-> merge_tags(CommonTags, get_tags_for_event(span)),
     data |-> [baseType |-> "MessageData", baseData |-> sanitize(MessageDataFrom(event))]]

\* mutant of create_envelopes: the event loop stops one short
create_envelopes_DropsLastEvent(span) ==
    <<sanitize(primary_of(span))>> \o
    [i \in 1..(Len(span.message_events) - 1) |->
        sanitize(message_of(span, span.message_events[i]))]

\* Exporter::create_envelopes, lines 143-203
create_envelopes(span) ==
    <<sanitize(primary_of(span))>> \o
    [i \in 1..Len(span.message_events) |-> sanitize(message_of(span, span.message_events[i]))]

\* the flat_map of lines 209-212
RECURSIVE flat_map(_)
flat_map(spans) ==
    IF spans = <<>> THEN <<>> ELSE create_envelopes(Head(spans)) \o flat_map(Tail(spans))

\* uploader::Response and trace::ExportResult (lines 219-227)
UploaderResponses == {"Success", "Retry", "NoRetry"}

ExportResultFrom(resp) ==
    CASE resp = "Success" -> "Success"
      [] resp = "Retry" -> "FailedRetryable"
      [] resp = "NoRetry" -> "FailedNotRetryable"

\* mutant of uploader_calls: a Retry outcome is retried once inside export
uploader_calls_RetryOnce(envelopes, resp) ==
    IF resp = "Retry" THEN <<envelopes, envelopes>> ELSE <<envelopes>>

\* what export hands to uploader::send: one call with every envelope (line 213)
uploader_calls(envelopes, resp) == <<envelopes>>

\* SpanExporter::export, lines 208-214, with resp the outcome of uploader::send
Export(resp) ==
    /\ result = None
    /\ uploads' = uploads \o uploader_calls(flat_map(batch), resp)
    /\ response' = Some(resp)
    /\ result' = Some(ExportResultFrom(resp))
    /\ UNCHANGED batch

(* Bounds of the exporter model *)
MaxAttrs == 2
MaxEvents == 2
MaxBatch == 2

\* the value an attribute key carries in the model
AttrValue(k) == IF k = "http.status_code" THEN I64(404) ELSE Str("v:" \o k)
ResourceValue(k) == Str("r:" \o k)
AttrMaps == {[k \in S |-> AttrValue(k)] : S \in {T \in SUBSET Keys : Cardinality(T) <= MaxAttrs}}
ResourceMaps == {EmptyMap, [k \in {"db.system"} |-> ResourceValue(k)]}
EventPool == {[name |-> "", attributes |-> EmptyMap],
              [name |-> "exception", attributes |-> [k \in {"exception.message"} |-> Str("boom")]]}
EventSeqs == UNION {[1..n -> EventPool] : n \in 0..MaxEvents}
Names == {"", "op"}

\* one span with every combination of kind, name, status, attributes and events
RichSpans == [span_id : {1}, span_kind : Kinds, name : Names, status_code : StatusCodes,
              attributes : AttrMaps, resource : ResourceMaps,
              message_events : {e \in EventSeqs : Len(e) <= 1}]
\* spans without attributes, for the batches of several spans
LeanSpans(id) == [span_id : {id}, span_kind : Kinds, name : {"op"}, status_code : {StatusOK},
                  attributes : {EmptyMap}, resource : {EmptyMap}, message_events : EventSeqs]
RECURSIVE TotalEvents(_)
TotalEvents(spans) ==
    IF spans = <<>> THEN 0 ELSE Len(Head(spans).message_events) + TotalEvents(Tail(spans))
\* batches of up to MaxBatch spans with up to MaxEvents events between them, the
\* span at position i having span id i
LeanBatches == UNION {{b \in [1..n -> UNION {LeanSpans(i) : i \in 1..n}] :
                          /\ \A i \in 1..n : b[i].span_id = i
                          /\ TotalEvents(b) <= MaxEvents} : n \in 0..MaxBatch}
Batches == {<<s>> : s \in RichSpans} \cup LeanBatches

ExportInit ==
    /\ QPInit
    /\ batch \in Batches
    /\ uploads = <<>>
    /\ response = None
    /\ result = None

ExportNext == \E resp \in UploaderResponses : Export(resp) /\ UNCHANGED qpVars

SpecExport == ExportInit /\ [][ExportNext]_vars

ExInit ==
    /\ batch = <<>>
    /\ uploads = <<>>
    /\ response = None
    /\ result = None

Init == QPInit /\ ExInit

Next ==
    \/ \E d \in Delays, s \in Samples : Tick(d, s) /\ UNCHANGED exVars
    \/ \E r \in Responses : Respond(r) /\ UNCHANGED exVars
    \/ Cancel /\ UNCHANGED exVars
    \/ DropManager /\ UNCHANGED exVars

Spec == Init /\ [][Next]_vars

-----------------------------------------------------------------------------
(* The controller under fair scheduling: a timer that can fire does fire, and an *)
(* exchange that was started returns.  The clock is followed for LiveHorizon     *)
(* seconds.                                                                      *)
LiveHorizon == 25

LiveTick(d, sample) == Tick(d, sample) /\ now' <= StartTime + LiveHorizon

LiveNext ==
    \/ \E d \in Delays, s \in Samples : LiveTick(d, s) /\ UNCHANGED exVars
    \/ \E r \in Responses : Respond(r) /\ UNCHANGED exVars
    \/ Cancel /\ UNCHANGED exVars
    \/ DropManager /\ UNCHANGED exVars

FairSpec ==
    /\ Init
    /\ [][LiveNext]_vars
    /\ WF_vars(\E d \in Delays, s \in Samples : LiveTick(d, s) /\ UNCHANGED exVars)
    /\ WF_vars(\E r \in Responses : Respond(r) /\ UNCHANGED exVars)

(* The controller on a runtime that can shut down while the handle is alive. *)
DropNext ==
    \/ LiveNext
    \/ RuntimeShutdown /\ UNCHANGED exVars

SpecDrop == Init /\ [][DropNext]_vars

(* The accumulator functions applied to cpu_metric, from the reset accumulator. *)
MetricNext ==
    \/ \E s \in MetricSamples : AddMetric(s) /\ UNCHANGED exVars
    \/ ResetMetric /\ UNCHANGED exVars

SpecMetric == Init /\ [][MetricNext]_vars

-----------------------------------------------------------------------------
(* QuickPulse claims *)

\* C1: whenever an exchange succeeds, the state after the tick is the response's
\* should_post, whatever it was before, and the last-success time is the time read
\* at that tick.
C1_SuccessAdoptsHint ==
    [][\A r \in OkResponses :
          Respond(r) => /\ is_collecting' = r.should_post
                        /\ last_success_time' = now
                        /\ last_success_time' = request.timestamp]_vars

\* C1 witness: a Post exchange succeeded with should_post = false, the controller
\* is back in Ping and the success time is the time of that tick.
C1_Witness ==
    /\ pc = "wait" /\ last_send_succeeded
    /\ request.mode = "Post" /\ ~is_collecting
    /\ last_success_time = request.timestamp

\* C2: a failed exchange in Post, at a tick 20 s or more after the last success,
\* leaves the controller in Ping with the 60 s fallback interval as next wait.
C2_PostStaleFallsBack ==
    [][(/\ pc = "exchange" /\ is_collecting
        /\ now - last_success_time >= 20
        /\ Respond(Err))
       => (~is_collecting' /\ current_timeout' = 60 /\ pc' = "wait")]_vars

\* C2 witness: after a success, a run of failed posts one second apart reached
\* exactly 20 s, and the controller fell back to Ping with a 60 s wait.
C2_Witness ==
    /\ pc = "wait" /\ ~last_send_succeeded
    /\ request.mode = "Post" /\ ~is_collecting
    /\ current_timeout = 60
    /\ last_success_time > UNIX_EPOCH
    /\ now - last_success_time = 20

\* C3: once the cancellation signal is delivered, a controller in its timer wait
\* can only stop, and neither that step nor any later one issues an exchange.
C3_CancellationWins ==
    /\ [](pc = "wait" /\ sender = "dropped" => ENABLED Cancel)
    /\ [][(sender = "dropped" /\ pc \in {"wait", "stopped"})
          => (pc' = "stopped" /\ request' = request)]_vars

\* C3 witness: a controller that was posting was cancelled in its wait and stopped.
C3_Witness ==
    /\ pc = "stopped" /\ sender = "dropped"
    /\ request.mode = "Post" /\ is_collecting

\* the staleness fallback of a tick: the exchange failed and the time since the
\* last success (unbounded when the clock is behind it) reached the threshold of
\* the state
C6_FallbackApplies(r) ==
    /\ ~r.ok
    /\ \/ now < last_success_time
       \/ is_collecting /\ now - last_success_time >= 20
       \/ ~is_collecting /\ now - last_success_time >= 60

\* C6: the remembered hint is the one of the most recent successful response that
\* carried one; after a tick without staleness fallback the next wait is 1 s in
\* Post, else the remembered hint, else 5 s.
C6_NextWait ==
    [][\A r \in Responses :
          Respond(r) =>
            /\ polling_interval_hint' =
                  IF r.ok /\ r.polling_interval_hint # None
                  THEN r.polling_interval_hint ELSE polling_interval_hint
            /\ ~C6_FallbackApplies(r) =>
                  current_timeout' =
                     IF is_collecting' THEN 1
                     ELSE IF polling_interval_hint' # None THEN polling_interval_hint'[1]
                     ELSE 5]_vars

\* C6 witness: a ping succeeded with should_post = true and the next tick is 1 s away.
C6_Witness ==
    /\ pc = "wait" /\ last_send_succeeded
    /\ request.mode = "Ping" /\ is_collecting
    /\ current_timeout = 1

\* the timer of the current wait fires within the clock's horizon
TimerInHorizon ==
    \E d \in Delays : now + current_timeout + d \in StartTime..(StartTime + LiveHorizon)

\* C7: the loop stops only from its wait and only after the cancellation signal;
\* while the signal is not sent, every wait leads to an exchange and every
\* exchange returns to the wait.
C7_OnlyCancellationStops ==
    /\ [][pc' = "stopped" => (pc = "stopped" \/ (pc = "wait" /\ sender = "dropped"))]_vars
    /\ (pc = "exchange") ~> (pc = "wait")
    /\ (pc = "wait" /\ sender = "held" /\ TimerInHorizon)
          ~> (pc = "exchange" \/ sender = "dropped")

\* C7 witness: two exchanges in a row failed and the controller, not cancelled,
\* has started the next one.
C7_Witness ==
    /\ pc = "exchange" /\ sender = "held"
    /\ ~last_send_succeeded
    /\ last_success_time > UNIX_EPOCH
    /\ now >= last_success_time + 3

-----------------------------------------------------------------------------
(* Exporter claims, on the states export has returned in *)

Exported == result # None
\* the envelopes of the one call to uploader::send
Sent == uploads[1]

IsMessage(e) == e.data.baseType = "MessageData"
IsPrimary(e) == e.data.baseType # "MessageData"

\* the envelope names and the payload each one carries
NameOfPayload ==
    [t \in {"RequestData", "RemoteDependencyData", "MessageData"} |->
        CASE t = "RequestData" -> "Microsoft.ApplicationInsights.Request"
          [] t = "RemoteDependencyData" -> "Microsoft.ApplicationInsights.RemoteDependency"
          [] t = "MessageData" -> "Microsoft.ApplicationInsights.Message"]

\* C4: the primary envelopes are, span by span, a Request for kinds Server and
\* Consumer and a RemoteDependency for Client, Producer and Internal; every event
\* gives a Message envelope; every envelope's name is the one of its payload.
C4_KindDecidesRecord ==
    Exported =>
        /\ \A i \in 1..Len(Sent) :
              /\ Sent[i].data.baseType \in DOMAIN NameOfPayload
              /\ Sent[i].name = NameOfPayload[Sent[i].data.baseType]
        /\ LET primaries == SelectSeq(Sent, IsPrimary)
           IN /\ Len(primaries) = Len(batch)
              /\ \A i \in 1..Len(batch) :
                    primaries[i].data.baseType =
                       IF batch[i].span_kind \in {"Server", "Consumer"}
                       THEN "RequestData" ELSE "RemoteDependencyData"
        /\ Len(SelectSeq(Sent, IsMessage)) = TotalEvents(batch)

\* C4 witness: a Consumer span with one event was exported as a Request envelope
\* followed by a Message envelope.
C4_Witness ==
    /\ Exported /\ Len(batch) = 1
    /\ batch[1].span_kind = "Consumer" /\ Len(batch[1].message_events) = 1
    /\ Sent[1].name = "Microsoft.ApplicationInsights.Request"
    /\ Sent[2].name = "Microsoft.ApplicationInsights.Message"

\* C5: before export returns nothing was uploaded; when it has returned, the
\* uploader was called exactly once and the result is its outcome translated
\* Success -> Success, Retry -> FailedRetryable, NoRetry -> FailedNotRetryable.
C5_OneUploadOneResult ==
    /\ ~Exported => (uploads = <<>> /\ response = None)
    /\ Exported =>
          /\ Len(uploads) = 1
          /\ response # None
          /\ <<response[1], result[1]>> \in {<<"Success", "Success">>,
                                             <<"Retry", "FailedRetryable">>,
                                             <<"NoRetry", "FailedNotRetryable">>}

\* C5 witness: the uploader answered Retry; export reported a retryable failure
\* after its single upload.
C5_Witness ==
    /\ Exported /\ response = Some("Retry") /\ result = Some("FailedRetryable")
    /\ Len(uploads) = 1 /\ Len(batch) = 2

\* where the envelopes of the span at position i start in the upload
RECURSIVE Offset(_)
Offset(i) == IF i = 1 THEN 0 ELSE Offset(i - 1) + 1 + Len(batch[i - 1].message_events)

\* the id of the span a primary envelope was made from
PrimaryId(e) ==
    IF e.data.baseType = "RequestData" THEN e.data.baseData.id ELSE e.data.baseData.id[1]

\* C8: the upload is, in batch order, for each span its primary envelope followed
\* by one Message envelope per event in event order: 1 + n envelopes per span,
\* none dropped, none duplicated.
C8_EnvelopesPerSpan ==
    Exported =>
        /\ Len(Sent) = Len(batch) + TotalEvents(batch)
        /\ \A i \in 1..Len(batch) :
              LET at == Offset(i)
                  events == batch[i].message_events
              IN /\ IsPrimary(Sent[at + 1])
                 /\ PrimaryId(Sent[at + 1]) = span_id_to_string(batch[i].span_id)
                 /\ \A k \in 1..Len(events) :
                       /\ IsMessage(Sent[at + 1 + k])
                       /\ Sent[at + 1 + k].data.baseData.message =
                             (IF events[k].name = "" THEN "<no message>" ELSE events[k].name)

\* C8 witness: a batch of two spans, the first with two different events, was
\* exported as four envelopes.
C8_Witness ==
    /\ Exported /\ Len(batch) = 2
    /\ Len(batch[1].message_events) = 2
    /\ batch[1].message_events[1].name # batch[1].message_events[2].name
    /\ Len(Sent) = 4
    /\ IsPrimary(Sent[1]) /\ IsMessage(Sent[2]) /\ IsMessage(Sent[3]) /\ IsPrimary(Sent[4])

\* the attributes of a span as the conversions see them: the span's own and the
\* resource's
HasAttr(span, k) == k \in DOMAIN span.attributes \cup DOMAIN span.resource
AttrString(span, k) ==
    ValueToString(IF k \in DOMAIN span.attributes THEN span.attributes[k]
                  ELSE span.resource[k])
AnyAttrWithPrefix(span, prefix) ==
    \E k \in DOMAIN span.attributes \cup DOMAIN span.resource : StartsWith(k, prefix)

\* the dependency type of the claim, first match first
C9_Type(span) ==
    CASE span.span_kind = "Internal" -> Some("InProc")
      [] span.span_kind # "Internal" /\ HasAttr(span, "db.system") ->
            Some(AttrString(span, "db.system"))
      [] span.span_kind # "Internal" /\ ~HasAttr(span, "db.system")
            /\ HasAttr(span, "messaging.system") ->
            Some(AttrString(span, "messaging.system"))
      [] span.span_kind # "Internal" /\ ~HasAttr(span, "db.system")
            /\ ~HasAttr(span, "messaging.system") /\ AnyAttrWithPrefix(span, "http.") ->
            Some("HTTP")
      [] span.span_kind # "Internal" /\ ~HasAttr(span, "db.system")
            /\ ~HasAttr(span, "messaging.system") /\ ~AnyAttrWithPrefix(span, "http.")
            /\ AnyAttrWithPrefix(span, "db.") ->
            Some("DB")
      [] OTHER -> None

\* C9: every dependency record has the type of the first matching rule and, for
\* kind Internal, success true; for the other kinds success is status = Ok.
C9_DependencyTypeAndSuccess ==
    Exported =>
        \A i \in 1..Len(batch) :
            batch[i].span_kind \in {"Client", "Producer", "Internal"} =>
                LET data == Sent[Offset(i) + 1].data.baseData
                IN /\ data.type_ = C9_Type(batch[i])
                   /\ data.success =
                         Some(batch[i].span_kind = "Internal" \/ batch[i].status_code = 0)

\* C9 witness: an Internal span with a db.system attribute and a status that is
\* not Ok was exported with type InProc and success true.
C9_Witness ==
    /\ Exported /\ Len(batch) = 1
    /\ batch[1].span_kind = "Internal" /\ batch[1].status_code # StatusOK
    /\ "db.system" \in DOMAIN batch[1].attributes
    /\ Sent[1].data.baseData.type_ = Some("InProc")
    /\ Sent[1].data.baseData.success = Some(TRUE)

\* the attributes whose value a record's special fields took
C10_Consumed(span) ==
    LET has(k) == HasAttr(span, k)
    IN IF span.span_kind \in {"Server", "Consumer"}
       THEN {k \in {"http.method", "http.status_code", "http.url"} : has(k)}
            \cup (IF has("http.method") /\ has("http.route") THEN {"http.route"} ELSE {})
            \cup (IF ~has("http.url") /\ has("http.target") THEN {"http.target"} ELSE {})
       ELSE {k \in {"http.status_code", "http.url", "http.host"} : has(k)}
            \cup (IF ~has("http.url") /\ has("db.statement") THEN {"db.statement"} ELSE {})
            \cup (IF ~has("http.host") /\ has("net.peer.name") THEN {"net.peer.name"} ELSE {})
            \cup (IF ~has("http.host") /\ ~has("net.peer.name") /\ has("db.name")
                  THEN {"db.name"} ELSE {})
            \cup (IF span.span_kind # "Internal" /\ has("db.system")
                  THEN {"db.system"} ELSE {})
            \cup (IF span.span_kind # "Internal" /\ ~has("db.system")
                     /\ has("messaging.system")
                  THEN {"messaging.system"} ELSE {})

PropertyKeys(data) == IF data.properties = None THEN {} ELSE DOMAIN data.properties[1]

-----------------------------------------------------------------------------
(* Claims on the accumulator, the handle and the request name *)

RECURSIVE SumSeq(_)
SumSeq(q) == IF q = <<>> THEN 0 ELSE q[1] + SumSeq(Tail(q))

\* C11: from the reset accumulator, after k samples the weight is k and the value
\* is the arithmetic mean of the k samples (the samples 10, 20, 30 give the means
\* 10, 15, 20 with the weights 1, 2, 3); reset_metric gives value 0 and weight 0
\* from any state.
C11_RunningMean ==
    /\ cpu_metric.weight = Len(fed)
    /\ cpu_metric.value * Len(fed) = SumSeq(fed)
    /\ fed = <<>> => cpu_metric = [value |-> 0, weight |-> 0]
    /\ fed = <<10>> => cpu_metric = [value |-> 10, weight |-> 1]
    /\ fed = <<10, 20>> => cpu_metric = [value |-> 15, weight |-> 2]
    /\ fed = <<10, 20, 30>> => cpu_metric = [value |-> 20, weight |-> 3]

C11_Witness == fed = <<10, 20, 30>> /\ cpu_metric = [value |-> 20, weight |-> 3]

\* C12: destroying the handle always attempts the send of the cancellation signal
\* and never waits for it; when the send fails, the failure is handed to the error
\* sink, once, and the destruction still completes: the handle ends dropped, never
\* panicked.
C12_DropNeverFails ==
    /\ [](sender = "held" => ENABLED DropManager)
    /\ [][sender = "held" /\ sender' # "held"
            => /\ sender' = "dropped"
               /\ \/ ReceiverAlive /\ chan < ChannelCapacity
                     /\ chan' = chan + 1 /\ errors' = errors
                  \/ ~(ReceiverAlive /\ chan < ChannelCapacity)
                     /\ chan' = chan /\ errors' = errors + 1]_vars

C12_Witness == sender = "dropped" /\ pc = "aborted" /\ chan = 0 /\ errors = 1

\* the name of the Request record exported for the i-th span of the batch
C13_Name(i) == SelectSeq(Sent, IsPrimary)[i].data.baseData.name

\* C13: the name of a Request is "{http.method} {http.route}" when both attributes
\* are present and http.method alone when only it is present; otherwise it is the
\* span's own name when that is not empty and absent when it is; http.route without
\* http.method does not override the name.
C13_RequestName ==
    Exported =>
        \A i \in 1..Len(batch) :
            LET span == batch[i]
                method == HasAttr(span, "http.method")
                route == HasAttr(span, "http.route")
            IN span.span_kind \in {"Server", "Consumer"} =>
                  /\ method /\ route =>
                        C13_Name(i) = Some(AttrString(span, "http.method") \o " " \o
                                           AttrString(span, "http.route"))
                  /\ method /\ ~route =>
                        C13_Name(i) = Some(AttrString(span, "http.method"))
                  /\ ~method /\ span.name # "" => C13_Name(i) = Some(span.name)
                  /\ ~method /\ span.name = "" => C13_Name(i) = None

\* C13 witness: a Server span named "op" carrying only http.route was exported
\* under its own name.
C13_Witness ==
    /\ Exported
    /\ \E i \in 1..Len(batch) :
          /\ batch[i].span_kind = "Server"
          /\ batch[i].name = "op"
          /\ HasAttr(batch[i], "http.route")
          /\ ~HasAttr(batch[i], "http.method")
          /\ C13_Name(i) = Some("op")

-----------------------------------------------------------------------------
(* Claims on the controller's exchanges *)

\* C14: at most one exchange is in flight at any time: the loop is suspended at
\* the exchange it started until that exchange returns, under every interleaving
\* of timer, response and shutdown signal.
C14_OneExchangeInFlight ==
    /\ in_flight \in {0, 1}
    /\ in_flight = 1 <=> pc = "exchange"

\* C14 witness: a later exchange is in flight, alone, after the shutdown signal
\* was sent.
C14_Witness ==
    /\ pc = "exchange"
    /\ in_flight = 1
    /\ last_success_time > UNIX_EPOCH
    /\ sender = "dropped"

\* C15: once the shutdown signal is sent while an exchange is in flight, that
\* exchange returns to a wait at which the signal is observed: cancellation is
\* enabled there and the timer branch is not, so no further exchange is started,
\* whatever the exchange returned and whatever wait it scheduled.
C15_ShutdownDuringExchange ==
    /\ [](sender = "dropped" /\ pc = "wait"
            => ENABLED Cancel /\ ~ENABLED (\E d \in Delays, s \in Samples : Tick(d, s)))
    /\ [][sender = "dropped" /\ pc = "exchange"
            => \/ pc' = "wait" /\ chan' = chan /\ in_flight' = 0 /\ request' = request
               \/ UNCHANGED qpVars]_vars
    /\ [][sender = "dropped" /\ pc # "exchange"
            => pc' # "exchange" /\ in_flight' = 0 /\ request' = request]_vars

\* C15 witness: the signal is queued while an exchange is in flight (a tick is
\* never started with the signal queued).
C15_Witness == pc = "exchange" /\ sender = "dropped" /\ chan = 1 /\ in_flight = 1

\* C16: a failed exchange in the Ping state leaves the state Ping; the next wait is
\* the fallback interval when the time since the last success is at least the Ping
\* threshold, and the polling hint (or the ping interval without one) below it.
C16_PingFailure ==
    [][(~is_collecting /\ Respond(Err))
         => /\ ~is_collecting'
            /\ current_timeout' =
                  IF now - last_success_time >= MAX_PING_WAIT_TIME
                  THEN FALLBACK_INTERVAL
                  ELSE IF polling_interval_hint # None
                  THEN polling_interval_hint[1] ELSE PING_INTERVAL]_vars

\* C16 witness: a ping failed exactly 60 s after the last success, with a hint of
\* 30 s remembered, and the next wait is the fallback interval.
C16_Witness ==
    /\ pc = "wait"
    /\ request.mode = "Ping"
    /\ ~last_send_succeeded
    /\ ~is_collecting
    /\ polling_interval_hint = Some(30)
    /\ now - last_success_time = MAX_PING_WAIT_TIME
    /\ current_timeout = FALLBACK_INTERVAL

\* C17: a failed exchange leaves the last-success time, the redirected endpoint
\* and the remembered hint as they were; it leaves the Ping/Post state as it was
\* unless the state is Post and at least 20 s passed since the last success; a
\* failure in Post below 20 s keeps Post with the post interval as the next wait.
C17_FailureFrame ==
    [][Respond(Err)
         => /\ last_success_time' = last_success_time
            /\ redirected_host' = redirected_host
            /\ polling_interval_hint' = polling_interval_hint
            /\ is_collecting' # is_collecting
                  => is_collecting /\ now - last_success_time >= MAX_POST_WAIT_TIME
            /\ is_collecting /\ now - last_success_time < MAX_POST_WAIT_TIME
                  => is_collecting' /\ current_timeout' = POST_INTERVAL]_vars

\* C17 witness: a post failed soon after a success; the state is still Post, the
\* wait is the post interval, the endpoint and the hint are still remembered.
C17_Witness ==
    /\ pc = "wait"
    /\ request.mode = "Post"
    /\ ~last_send_succeeded
    /\ is_collecting
    /\ current_timeout = POST_INTERVAL
    /\ IsSome(redirected_host)
    /\ IsSome(polling_interval_hint)
    /\ last_success_time > UNIX_EPOCH
    /\ now > last_success_time

\* C18: an exchange in flight is a Post exactly when the state it was sent in is
\* Post, and a Ping otherwise; the first exchange is a Ping to the default
\* endpoint; an exchange is addressed to the redirected endpoint most recently
\* carried by a successful response, and to the default endpoint when none ever
\* carried one; a response without a redirect and a failure never revert it.
C18_ModeAndEndpoint ==
    /\ [](pc = "exchange"
            => /\ request.mode = "Post" <=> is_collecting
               /\ request.mode = "Ping" <=> ~is_collecting
               /\ request.host = IF redirected_host = None THEN DefaultEndpoint
                                                           ELSE redirected_host[1])
    /\ [][request = NoRequest /\ request' # request
            => request'.mode = "Ping" /\ request'.host = DefaultEndpoint]_vars
    /\ [][\A r \in Responses :
            Respond(r) => redirected_host' = IF r.ok /\ r.redirected_host # None
                                             THEN r.redirected_host
                                             ELSE redirected_host]_vars
    /\ [][redirected_host # None => redirected_host' # None]_vars

\* C18 witness: after a failed exchange, a Post is in flight to the endpoint a
\* response redirected to.
C18_Witness ==
    /\ pc = "exchange"
    /\ ~last_send_succeeded
    /\ request.mode = "Post"
    /\ request.host = "redirect-b"

\* C19: the running metric is reset on every tick, so the accumulator is (0, 0) at
\* every wait and during every exchange, whether exchanges succeed or fail; every
\* envelope sent carries a metric of weight 1 whose value is the sample of its own
\* tick.
C19_MetricPerTick ==
    /\ [](cpu_metric = [value |-> 0, weight |-> 0])
    /\ [](request # NoRequest => request.weight = 1)
    /\ [][\A s \in Samples :
            (\E d \in Delays : Tick(d, s)) => request'.value = s /\ request'.weight = 1]_vars

\* C19 witness: after a success and then a failure, the envelope in flight carries
\* the one sample of its tick.
C19_Witness ==
    /\ pc = "exchange"
    /\ last_success_time > UNIX_EPOCH
    /\ ~last_send_succeeded
    /\ request.weight = 1
    /\ request.value = 30
    /\ cpu_metric = [value |-> 0, weight |-> 0]

\* C20: the controller is never waiting in Post with 20 s or more since the last
\* success, and every tick in Post moves the clock on by at least the post interval,
\* so a run of failures leaves Post at the first failed tick 20 s after the last
\* success; a failure after a fallback wait in Ping leaves the state Ping with the
\* fallback interval again, so it stays there until an exchange succeeds.
C20_PostIsLeft ==
    /\ [](pc = "wait" /\ is_collecting => now - last_success_time < MAX_POST_WAIT_TIME)
    /\ [][pc = "wait" /\ is_collecting /\ pc' = "exchange"
            => now' >= now + POST_INTERVAL]_vars
    /\ [][(~is_collecting /\ ~last_send_succeeded /\ current_timeout = FALLBACK_INTERVAL
             /\ Respond(Err))
            => ~is_collecting' /\ current_timeout' = FALLBACK_INTERVAL]_vars

\* C20 witness: posts failed until 20 s after the last success, the controller
\* fell back to Ping, and the ping one fallback interval later failed too (without
\* a hint, pings alone cannot be 80 s after a success).
C20_Witness ==
    /\ pc = "wait"
    /\ request.mode = "Ping"
    /\ ~is_collecting
    /\ ~last_send_succeeded
    /\ polling_interval_hint = None
    /\ last_success_time > UNIX_EPOCH
    /\ now - last_success_time = MAX_POST_WAIT_TIME + FALLBACK_INTERVAL
    /\ current_timeout = FALLBACK_INTERVAL

\* C21: the last-success time starts at the epoch and stays there until an exchange
\* succeeds; the wait before the first exchange is the ping interval; as long as no
\* exchange has succeeded, every exchange is a ping, and after each failed one,
\* the very first included, the state is Ping and the wait is the fallback interval.
C21_StaleBeforeFirstSuccess ==
    /\ request = NoRequest
          => /\ last_success_time = UNIX_EPOCH
             /\ ~is_collecting
             /\ pc = "wait" => current_timeout = PING_INTERVAL
    /\ request # NoRequest /\ last_success_time = UNIX_EPOCH
          => /\ request.mode = "Ping"
             /\ ~is_collecting
             /\ ~last_send_succeeded
             /\ pc # "exchange" => current_timeout = FALLBACK_INTERVAL
    /\ last_success_time # UNIX_EPOCH => last_success_time >= StartTime + PING_INTERVAL

\* C21 witness: the very first exchange, sent one ping interval after the start,
\* failed, and the controller waits the fallback interval.
C21_Witness ==
    /\ pc = "wait"
    /\ last_success_time = UNIX_EPOCH
    /\ request.mode = "Ping"
    /\ request.timestamp = StartTime + PING_INTERVAL
    /\ ~last_send_succeeded
    /\ current_timeout = FALLBACK_INTERVAL

\* C22: at every wait after a tick, the wait in Post is the post interval; after a
\* successful exchange the wait is the post interval in Post and the hint (or the
\* ping interval) in Ping; a wait that is neither of these is the fallback
\* interval, after a failed exchange and in Ping.
C22_WaitMatchesState ==
    pc = "wait" /\ request # NoRequest
       => LET regular == IF is_collecting THEN POST_INTERVAL
                         ELSE IF polling_interval_hint # None
                         THEN polling_interval_hint[1] ELSE PING_INTERVAL
          IN /\ is_collecting => current_timeout = POST_INTERVAL
             /\ last_send_succeeded => current_timeout = regular
             /\ current_timeout # regular
                   => /\ current_timeout = FALLBACK_INTERVAL
                      /\ ~last_send_succeeded
                      /\ ~is_collecting

\* C22 witness: a successful post carried a hint of 30 s, and the wait in Post is
\* the post interval.
C22_Witness ==
    /\ pc = "wait"
    /\ request.mode = "Post"
    /\ is_collecting
    /\ last_send_succeeded
    /\ polling_interval_hint = Some(30)
    /\ current_timeout = POST_INTERVAL

====
